---- MODULE Spec2Model ----
(***************************************************************************)
(* chronoschema.py: SQL Server schema extraction and migration execution.  *)
(*                                                                         *)
(* The module models the batch splitter (re.split on the GO token), the    *)
(* two database drivers migration_to_db and schema_to_db, the staging and  *)
(* move steps of from_db, and cleanup with its empty-directory pruning.    *)
(* A text is a sequence of characters, a path a sequence of components.    *)
(***************************************************************************)
EXTENDS Naturals, Sequences, FiniteSets

VARIABLES
    cmd,        \* the CLI command that runs
    pc,         \* position of the running command
    text,       \* script text handed to the splitter
    batches,    \* result of the last split
    overwrite,  \* the -o option of the running command
    nTargets,   \* len(target_migrations) or len(target_addresses)
    t,          \* 1-based number of the list item the outer for loop is at
    walk,       \* files os.walk still has to yield for the current target
    file,       \* the schema file being processed: [no, ext]
    i,          \* enumerate index of the batch loop (0-based)
    open,       \* identities of the connections that are open
    conns,      \* number of connections opened so far
    scripts,    \* number of script files read so far
    connection, \* identity of the connection bound by the with statement
    trace,      \* statements the server received for the current list item
    attempts,   \* batches submitted on the current connection
    out,        \* batch positions printed by "Failed on batch ..."
    rejected,   \* positions of the batches the server rejected
    fsFiles,    \* the files on disk: path -> content
    fsDirs,     \* the directories on disk
    sources,    \* the -s list of from_db
    src,        \* 1-based number of the source the for loop of from_db is at
    gen,        \* generate_creation_migrations
    staged,     \* paths, relative to the staging root, the scripter wrote
    pending,    \* staged files os.walk still has to yield
    matched,    \* files glob returned that cleanup still has to process
    name_swaps, \* the --name_swaps pairs, in dict order
    swap_filenames,     \* the --swap_filenames option
    remove_empty_dirs,  \* the --remove_empty_dirs option
    listing,    \* what the bottom-up os.walk scanned: [dirs, files]
    todo,       \* directories the bottom-up walk still has to yield
    deleted     \* the set of removed directories kept by cleanup

splitVars == <<text, batches>>
dbVars == <<overwrite, nTargets, t, walk, file, i, open, conns, scripts,
            connection, trace, attempts, out, rejected>>
fsVars == <<fsFiles, fsDirs>>
fromVars == <<sources, src, gen, staged, pending>>
cleanVars == <<matched, name_swaps, swap_filenames, remove_empty_dirs,
               listing, todo, deleted>>
vars == <<cmd, pc, splitVars, dbVars, fsVars, fromVars, cleanVars>>

----------------------------------------------------------------------------
(* Bounds of the model. *)

\* Longest text handed to the splitter on its own.
MaxLen == 7
\* Most statements of a script file the database commands read.
MaxBatches == 3
\* Most migrations or target addresses on the command line.
MaxTargets == 2
\* Most files os.walk lists for one target of schema_to_db.
MaxFiles == 2
\* Most sources on the command line of from_db.
MaxSources == 2
\* Most files on disk when from_db starts.
MaxExisting == 1
\* Deepest directory below base_dir when cleanup starts.
MaxDepth == 2

----------------------------------------------------------------------------
(* Texts. *)

NL == "\n"

Chars == {"G", "O", NL, "a"}

Texts == UNION {[1..n -> Chars] : n \in 0..MaxLen}

DropLast(s) == SubSeq(s, 1, Len(s) - 1)

\* The lookbehind (?<=) of the pattern: it is empty, so it succeeds at
\* every position p of t.
LookBehind(s, p) == TRUE

\* The pattern (?<=)GO\n matches at position p of s.
MatchAt(s, p) ==
    /\ p + 2 <= Len(s)
    /\ LookBehind(s, p)
    /\ s[p] = "G"
    /\ s[p + 1] = "O"
    /\ s[p + 2] = NL

\* re.split: scan from `from` for the leftmost match; the piece that began at
\* `start` ends before it, and the scan resumes after the match.
RECURSIVE SplitFrom(_, _, _)
SplitFrom(s, start, from) ==
    IF from > Len(s)
    THEN <<SubSeq(s, start, Len(s))>>
    ELSE IF MatchAt(s, from)
         THEN <<SubSeq(s, start, from - 1)>> \o SplitFrom(s, from + 3, from + 3)
         ELSE SplitFrom(s, start, from + 1)

ReSplit(s) == SplitFrom(s, 1, 1)

\* Batches without the [:-1].
BatchesKeepLast(s) == ReSplit(s)

\* re.split(r"(?<=)GO\n", f.read())[:-1]
Batches(s) == DropLast(ReSplit(s))

----------------------------------------------------------------------------
(* The splitter applied to an arbitrary text. *)

DbIdle ==
    /\ nTargets = 0
    /\ t = 0
    /\ walk = <<>>
    /\ file = [no |-> 0, ext |-> "sql"]
    /\ i = 0
    /\ open = {}
    /\ conns = 0
    /\ scripts = 0
    /\ connection = 0
    /\ trace = <<>>
    /\ attempts = <<>>
    /\ out = <<>>
    /\ rejected = {}

NoFiles == [p \in {} |-> "old"]

FsIdle ==
    /\ fsFiles = NoFiles
    /\ fsDirs = {}

FromIdle ==
    /\ sources = <<>>
    /\ src = 0
    /\ gen = FALSE
    /\ staged = {}
    /\ pending = {}

CleanIdle ==
    /\ matched = {}
    /\ name_swaps = <<>>
    /\ swap_filenames = FALSE
    /\ remove_empty_dirs = FALSE
    /\ listing = [dirs |-> {}, files |-> {}]
    /\ todo = {}
    /\ deleted = {}

InitSplit ==
    /\ cmd = "split"
    /\ pc = "start"
    /\ text \in Texts
    /\ batches = <<>>
    /\ overwrite = FALSE
    /\ DbIdle
    /\ FsIdle
    /\ FromIdle
    /\ CleanIdle

SplitText ==
    /\ cmd = "split"
    /\ pc = "start"
    /\ batches' = Batches(text)
    /\ pc' = "done"
    /\ UNCHANGED <<cmd, text, dbVars, fsVars, fromVars, cleanVars>>

NextSplit == SplitText

SpecSplit == InitSplit /\ [][NextSplit]_vars

----------------------------------------------------------------------------
(* Separator positions and the pieces between them, stated on the text. *)

\* Positions where the token GO followed by a newline occurs.
TokenPositions(s) ==
    {p \in 1..Len(s) :
        p + 2 <= Len(s) /\ s[p] = "G" /\ s[p + 1] = "O" /\ s[p + 2] = NL}

\* Positions of the lines that contain exactly GO and end in a newline.
LinePositions(s) ==
    {p \in TokenPositions(s) : p = 1 \/ s[p - 1] = NL}

Kth(P, k) == CHOOSE p \in P : Cardinality({q \in P : q <= p}) = k

\* The text strictly between consecutive positions of P, the first piece
\* starting at the start of the text, what follows the last position left out.
PiecesBetween(s, P) ==
    [k \in 1..Cardinality(P) |->
        SubSeq(s, IF k = 1 THEN 1 ELSE Kth(P, k - 1) + 3, Kth(P, k) - 1)]

\* C5: a text with n occurrences of the separator token (GO followed by a
\* newline) splits to exactly n batches, batch k being the text strictly
\* between occurrence k-1 (or the start of the text) and occurrence k; what
\* follows the last occurrence is discarded, zero occurrences give zero
\* batches.
C5_SplitYieldsPiecesBetweenSeparators ==
    (cmd = "split" /\ pc = "done") =>
        /\ Len(batches) = Cardinality(TokenPositions(text))
        /\ batches = PiecesBetween(text, TokenPositions(text))

C5_Witness ==
    /\ cmd = "split"
    /\ pc = "done"
    /\ Len(batches) = 2
    /\ batches[1] # <<>>

\* C6: the text is split only at separator lines, lines that contain exactly
\* GO and end in a newline: the batches are the pieces between those lines,
\* and a GO at the end of a longer line (CARGO) is no boundary.
C6_SplitOnlyAtSeparatorLines ==
    (cmd = "split" /\ pc = "done") =>
        batches = PiecesBetween(text, LinePositions(text))

----------------------------------------------------------------------------
(* migration_to_db and schema_to_db. *)

\* Statement number k of a generated script, followed by its separator line.
Statement(k) == [j \in 1..k |-> "a"] \o <<NL, "G", "O", NL>>

RECURSIVE Script(_)
Script(n) == IF n = 0 THEN <<>> ELSE Script(n - 1) \o Statement(n)

\* Script files on disk: n statements, each closed by a separator line, with
\* or without a last statement that no separator follows.
ScriptTexts ==
    {Script(n) \o tail : n \in 0..MaxBatches, tail \in {<<>>, <<"a", NL>>}}

Missing == <<"missing">>

Extensions == {"sql", "txt"}

\* What os.walk lists for a target: the extensions of the files, in walk order.
Walks == UNION {[1..n -> Extensions] : n \in 0..MaxFiles}

InitDb ==
    /\ cmd \in {"migration_to_db", "schema_to_db"}
    /\ pc = "loop"
    /\ text = <<>>
    /\ batches = <<>>
    /\ overwrite \in (IF cmd = "schema_to_db" THEN BOOLEAN ELSE {FALSE})
    /\ nTargets \in 0..MaxTargets
    /\ t = 0
    /\ walk = <<>>
    /\ file = [no |-> 0, ext |-> "sql"]
    /\ i = 0
    /\ open = {}
    /\ conns = 0
    /\ scripts = 0
    /\ connection = 0
    /\ trace = <<>>
    /\ attempts = <<>>
    /\ out = <<>>
    /\ rejected = {}
    /\ FsIdle
    /\ FromIdle
    /\ CleanIdle

\* for target in target_migrations:
MigLoop ==
    /\ cmd = "migration_to_db"
    /\ pc = "loop"
    /\ IF t < nTargets
       THEN /\ t' = t + 1
            /\ trace' = <<>>
            /\ pc' = "read"
       ELSE /\ pc' = "done"
            /\ UNCHANGED <<t, trace>>
    /\ UNCHANGED <<cmd, overwrite, nTargets, walk, file, i, open, conns,
                   scripts, connection, attempts, out, rejected, fsVars,
                   fromVars, cleanVars, splitVars>>

\* open(migrations\<target>.sql), read and split; a missing file raises.
MigRead ==
    /\ cmd = "migration_to_db"
    /\ pc = "read"
    /\ \E f \in ScriptTexts \cup {Missing} :
        IF f = Missing
        THEN /\ pc' = "read_failed"
             /\ UNCHANGED <<text, batches, scripts>>
        ELSE /\ text' = f
             /\ batches' = Batches(f)
             /\ scripts' = scripts + 1
             /\ pc' = "connect"
    /\ attempts' = <<>>
    /\ out' = <<>>
    /\ rejected' = {}
    /\ UNCHANGED <<cmd, overwrite, nTargets, t, walk, file, i, open, conns,
                   connection, trace, fsVars, fromVars, cleanVars>>

\* for target in target_addresses: ... for root, _, files in os.walk(...)
SchLoop ==
    /\ cmd = "schema_to_db"
    /\ pc = "loop"
    /\ IF t < nTargets
       THEN /\ t' = t + 1
            /\ trace' = <<>>
            /\ walk' \in Walks
            /\ file' = [no |-> 0, ext |-> "sql"]
            /\ pc' = "walk"
       ELSE /\ pc' = "done"
            /\ UNCHANGED <<t, trace, walk, file>>
    /\ UNCHANGED <<cmd, overwrite, nTargets, i, open, conns, scripts,
                   connection, attempts, out, rejected, fsVars, fromVars,
                   cleanVars, splitVars>>

\* for file in files: open, read and split. Every listed file is taken,
\* whatever its extension.
SchFile ==
    /\ cmd = "schema_to_db"
    /\ pc = "walk"
    /\ IF walk # <<>>
       THEN /\ file' = [no |-> file.no + 1, ext |-> Head(walk)]
            /\ walk' = Tail(walk)
            /\ \E f \in ScriptTexts :
                /\ text' = f
                /\ batches' = Batches(f)
            /\ scripts' = scripts + 1
            /\ attempts' = <<>>
            /\ out' = <<>>
            /\ rejected' = {}
            /\ pc' = "connect"
       ELSE /\ pc' = "loop"
            /\ UNCHANGED <<file, walk, text, batches, scripts, attempts, out,
                           rejected>>
    /\ UNCHANGED <<cmd, overwrite, nTargets, t, i, open, conns, connection,
                   trace, fsVars, fromVars, cleanVars>>

\* with sql_engine.connect() as connection: a new connection is opened, or
\* the server cannot be reached and the exception leaves the command.
Connect(after) ==
    /\ pc = "connect"
    /\ \/ /\ conns' = conns + 1
          /\ connection' = conns + 1
          /\ open' = open \cup {conns + 1}
          /\ i' = 0
          /\ pc' = after
       \/ /\ pc' = "connect_failed"
          /\ UNCHANGED <<conns, connection, open, i>>
    /\ UNCHANGED <<cmd, overwrite, nTargets, t, walk, file, trace, scripts,
                   attempts, out, rejected, fsVars, fromVars, cleanVars,
                   splitVars>>

MigConnect == cmd = "migration_to_db" /\ Connect("exec")

SchConnect == cmd = "schema_to_db" /\ Connect("drop")

DropEvent == [op |-> "drop", target |-> t, file |-> file.no, ext |-> file.ext,
              conn |-> connection, script |-> scripts, pos |-> 0,
              sql |-> <<>>]

\* SchDrop without the DROP statement.
SchDropSkipped ==
    /\ cmd = "schema_to_db"
    /\ pc = "drop"
    /\ pc' = "exec"
    /\ UNCHANGED <<cmd, overwrite, nTargets, t, walk, file, i, open, conns,
                   scripts, connection, trace, attempts, out, rejected,
                   fsVars, fromVars, cleanVars, splitVars>>

\* if overwrite: connection.execute(DROP DATABASE IF EXISTS [target_db]),
\* inside the with block of the file and outside any try.
SchDrop ==
    /\ cmd = "schema_to_db"
    /\ pc = "drop"
    /\ IF overwrite
       THEN /\ trace' = Append(trace, DropEvent)
            /\ \/ /\ pc' = "exec"
                  /\ UNCHANGED open
               \/ /\ pc' = "drop_failed"
                  /\ open' = open \ {connection}
       ELSE /\ pc' = "exec"
            /\ UNCHANGED <<trace, open>>
    /\ UNCHANGED <<cmd, overwrite, nTargets, t, walk, file, i, conns, scripts,
                   connection, attempts, out, rejected, fsVars, fromVars,
                   cleanVars, splitVars>>

ExecEvent == [op |-> "exec", target |-> t, file |-> file.no, ext |-> file.ext,
              conn |-> connection, script |-> scripts, pos |-> i + 1,
              sql |-> batches[i + 1]]

\* ExecBatch with a break after the failure message.
ExecBatchStopOnFailure ==
    /\ pc = "exec"
    /\ i < Len(batches)
    /\ trace' = Append(trace, ExecEvent)
    /\ attempts' = Append(attempts, batches[i + 1])
    /\ \/ /\ i' = i + 1
          /\ UNCHANGED <<out, rejected>>
       \/ /\ rejected' = rejected \cup {Len(attempts) + 1}
          /\ out' = Append(out, i + 1)
          /\ i' = Len(batches)
    /\ UNCHANGED <<cmd, pc, overwrite, nTargets, t, walk, file, open, conns,
                   scripts, connection, fsVars, fromVars, cleanVars,
                   splitVars>>

\* for i, batch in enumerate(batches): try: connection.execute(batch)
\* except Exception: print("Failed on batch {i+1}/{len(batches)}!")
ExecBatch ==
    /\ pc = "exec"
    /\ i < Len(batches)
    /\ trace' = Append(trace, ExecEvent)
    /\ attempts' = Append(attempts, batches[i + 1])
    /\ \/ UNCHANGED <<out, rejected>>
       \/ /\ rejected' = rejected \cup {Len(attempts) + 1}
          /\ out' = Append(out, i + 1)
    /\ i' = i + 1
    /\ UNCHANGED <<cmd, pc, overwrite, nTargets, t, walk, file, open, conns,
                   scripts, connection, fsVars, fromVars, cleanVars,
                   splitVars>>

MigExec == cmd = "migration_to_db" /\ ExecBatch

SchExec == cmd = "schema_to_db" /\ ExecBatch

\* CloseConnection that leaves the connection open after a failed batch.
CloseConnectionUnlessFailed(after) ==
    /\ pc = "exec"
    /\ i >= Len(batches)
    /\ open' = IF rejected = {} THEN open \ {connection} ELSE open
    /\ pc' = after
    /\ UNCHANGED <<cmd, overwrite, nTargets, t, walk, file, i, conns, scripts,
                   connection, trace, attempts, out, rejected, fsVars,
                   fromVars, cleanVars, splitVars>>

\* The end of the with block: the batch loop is exhausted and the
\* connection is closed.
CloseConnection(after) ==
    /\ pc = "exec"
    /\ i >= Len(batches)
    /\ open' = open \ {connection}
    /\ pc' = after
    /\ UNCHANGED <<cmd, overwrite, nTargets, t, walk, file, i, conns, scripts,
                   connection, trace, attempts, out, rejected, fsVars,
                   fromVars, cleanVars, splitVars>>

MigClose == cmd = "migration_to_db" /\ CloseConnection("loop")

SchClose == cmd = "schema_to_db" /\ CloseConnection("walk")

NextDb ==
    \/ MigLoop
    \/ MigRead
    \/ MigConnect
    \/ MigExec
    \/ MigClose
    \/ SchLoop
    \/ SchFile
    \/ SchConnect
    \/ SchDrop
    \/ SchExec
    \/ SchClose

SpecDb == InitDb /\ [][NextDb]_vars

----------------------------------------------------------------------------
(* Properties of the batch loop and of the connections. *)

Execs == {k \in DOMAIN trace : trace[k].op = "exec"}

Drops == {k \in DOMAIN trace : trace[k].op = "drop"}

\* The failure messages printed so far name exactly the rejected batches
\* among the first n, each once, by 1-based position, in ascending order.
ReportedExactly(n) ==
    /\ rejected \subseteq 1..n
    /\ Len(out) = Cardinality(rejected)
    /\ \A k \in DOMAIN out : out[k] \in rejected
    /\ \A j, k \in DOMAIN out : j < k => out[j] < out[k]

\* A script has been run to the end of its with block.
ScriptFinished == pc \in {"loop", "walk", "read", "done"} /\ conns > 0

\* C1: whatever batches fail, the batches of a script are attempted once
\* each in the order 1..n (after i iterations exactly the first i, at the end
\* all of them), and a failure is reported for exactly the failing batches,
\* by 1-based position.
C1_EveryBatchAttemptedOnceInOrder ==
    /\ pc = "exec" =>
        /\ i <= Len(batches)
        /\ attempts = SubSeq(batches, 1, i)
        /\ ReportedExactly(i)
    /\ ScriptFinished =>
        /\ attempts = batches
        /\ ReportedExactly(Len(batches))

C1_Witness ==
    /\ ScriptFinished
    /\ Len(batches) = 3
    /\ rejected = {2}
    /\ out = <<2>>
    /\ Len(attempts) = 3

\* C2: with overwrite set, every creation batch schema_to_db submits for a
\* target comes after a DROP of that target's database.
C2_DropBeforeAnyCreationBatch ==
    (cmd = "schema_to_db" /\ overwrite) =>
        \A k \in Execs :
            \E j \in Drops : j < k /\ trace[j].target = trace[k].target

C2_Witness ==
    /\ cmd = "schema_to_db"
    /\ overwrite
    /\ Execs # {}

\* C3: the drop of a target's database happens once, before the walk over
\* its schema files; once a creation batch of the target has been executed
\* no further DROP of its database is issued.
C3_DropOnceBeforeTheWalk ==
    cmd = "schema_to_db" =>
        /\ Cardinality(Drops) <= 1
        /\ \A j \in Execs : \A k \in Drops : k < j

\* C4: a connection failure is fatal only for its migration or target: the
\* run does not stop at it while migrations, targets or files remain.
C4_ConnectFailureMovesToNext ==
    pc = "connect_failed" => (t = nTargets /\ walk = <<>>)

\* C7: every script runs on its own newly opened connection (script number
\* n on connection number n), at most one connection is open at any time,
\* and none is open outside the with block of a script, whether or not
\* batches of it failed.
C7_ConnectionScopedPerScript ==
    /\ Cardinality(open) <= 1
    /\ pc \in {"drop", "exec"} => (open = {connection} /\ connection = scripts)
    /\ pc \notin {"drop", "exec"} => open = {}
    /\ \A k \in Execs : trace[k].conn = trace[k].script

C7_Witness ==
    /\ ScriptFinished
    /\ conns = 2
    /\ rejected # {}
    /\ open = {}

\* C10: schema_to_db reads, splits and executes only the files whose name
\* ends in .sql; a file with another extension is never submitted.
C10_OnlySqlFilesExecuted ==
    cmd = "schema_to_db" =>
        /\ \A k \in Execs : trace[k].ext = "sql"
        /\ pc \in {"connect", "drop", "exec"} => file.ext = "sql"

----------------------------------------------------------------------------
(* Paths and the file system. *)

IsPrefix(p, q) == Len(p) <= Len(q) /\ SubSeq(q, 1, Len(p)) = p

\* q lies below the directory p.
Below(q, p) == IsPrefix(p, q) /\ q # p

Dir(p) == DropLast(p)

Name(p) == p[Len(p)]

\* os.makedirs(d): d and every missing directory above it.
MakeDirs(dirs, d) == dirs \cup {SubSeq(d, 1, k) : k \in 1..Len(d)}

\* shutil.rmtree(d)
RmTreeFiles(files, d) ==
    [p \in {q \in DOMAIN files : ~Below(q, d)} |-> files[p]]

RmTreeDirs(dirs, d) == {q \in dirs : ~IsPrefix(d, q)}

\* str.replace(old, ""): every occurrence of old is taken out, left to right.
RECURSIVE Remove(_, _)
Remove(p, old) ==
    IF old = <<>> \/ Len(p) < Len(old)
    THEN p
    ELSE IF SubSeq(p, 1, Len(old)) = old
         THEN Remove(SubSeq(p, Len(old) + 1, Len(p)), old)
         ELSE <<Head(p)>> \o Remove(Tail(p), old)

\* The file names of the model that end in .sql.
SqlNames == {"t1.sql", "t2.sql", "stale.sql", "x.sql",
             "0-db1-creation-script.sql", "0-db2-creation-script.sql"}

\* file.endswith(".sql")
EndsWithSql(name) == name \in SqlNames

----------------------------------------------------------------------------
(* from_db. *)

BaseDir == <<"C:">>

SampleSources == {[server |-> "srv", db |-> "db1"],
                  [server |-> "srv", db |-> "db2"]}

\* slugify("[server].[db]"): brackets and the dot are dropped.
Slug(source) == source.server \o source.db

\* db_stg_dir
StgDir(source) == BaseDir \o <<".stg", Slug(source)>>

\* slugify("<timestamp>-<db> creation script") + ".sql"
CreationScript(source) == "0-" \o source.db \o "-creation-script.sql"

\* The -f argument of the file-per-object invocation, below a root.
SchemaDir(source) == <<"schema", source.server, source.db>>

ObjectFiles == {"t1.sql", "t2.sql"}

\* Files that may already lie on disk when from_db starts: earlier output,
\* a file of another kind, and what a crashed run left in the staging area.
ExistingCandidates ==
    UNION {
        {BaseDir \o <<"migrations", CreationScript(source)>>,
         BaseDir \o SchemaDir(source) \o <<"t1.sql">>,
         BaseDir \o SchemaDir(source) \o <<"notes.txt">>,
         StgDir(source) \o SchemaDir(source) \o <<"stale.sql">>}
        : source \in SampleSources}

InitFromDb ==
    /\ cmd = "from_db"
    /\ pc = "loop"
    /\ text = <<>>
    /\ batches = <<>>
    /\ overwrite \in BOOLEAN
    /\ DbIdle
    /\ \E n \in 1..MaxSources : sources \in [1..n -> SampleSources]
    /\ src = 0
    /\ gen \in BOOLEAN
    /\ staged = {}
    /\ pending = {}
    /\ CleanIdle
    /\ \E E \in SUBSET ExistingCandidates :
        /\ Cardinality(E) <= MaxExisting
        /\ fsFiles = [p \in E |-> "old"]
        /\ fsDirs = {BaseDir} \cup UNION {MakeDirs({}, Dir(p)) : p \in E}

\* for source in sources:
FromDbLoop ==
    /\ cmd = "from_db"
    /\ pc = "loop"
    /\ IF src < Len(sources)
       THEN /\ src' = src + 1
            /\ pc' = "stage"
       ELSE /\ pc' = "done"
            /\ UNCHANGED src
    /\ UNCHANGED <<cmd, sources, gen, staged, pending, cleanVars, splitVars,
                   dbVars, fsVars>>

\* The staging area is removed if it exists and made anew with its
\* migrations directory; the scripter writes the creation script (if asked
\* for) and one file per object below schema\<server>\<db>, or fails.
FromDbStage ==
    /\ cmd = "from_db"
    /\ pc = "stage"
    /\ LET source == sources[src]
           stg == StgDir(source)
           kept == RmTreeFiles(fsFiles, stg)
           cleared == MakeDirs(RmTreeDirs(fsDirs, stg),
                               stg \o <<"migrations">>)
           creation == IF gen THEN {<<"migrations", CreationScript(source)>>}
                              ELSE {}
           Staged(rel) ==
               [p \in DOMAIN kept \cup {stg \o r : r \in rel} |->
                   IF p \in DOMAIN kept THEN kept[p] ELSE Slug(source)]
       IN \/ \E objects \in SUBSET ObjectFiles :
                LET rel == creation \cup
                           {SchemaDir(source) \o <<o>> : o \in objects}
                IN /\ staged' = rel
                   /\ fsFiles' = Staged(rel)
                   /\ fsDirs' = MakeDirs(cleared, stg \o SchemaDir(source))
                   /\ pc' = "purge"
          \/ \E written \in SUBSET creation :
                /\ staged' = written
                /\ fsFiles' = Staged(written)
                /\ fsDirs' = cleared
                /\ pc' = "script_failed"
    /\ UNCHANGED <<cmd, sources, src, gen, pending, cleanVars, splitVars,
                   dbVars>>

\* if overwrite: every .sql file below schema_base_dir is removed, if that
\* directory exists. Then os.walk(db_stg_dir) starts.
FromDbPurge ==
    /\ cmd = "from_db"
    /\ pc = "purge"
    /\ LET schema_base_dir == BaseDir \o SchemaDir(sources[src])
           stale == {p \in DOMAIN fsFiles :
                        /\ overwrite
                        /\ schema_base_dir \in fsDirs
                        /\ Below(p, schema_base_dir)
                        /\ EndsWithSql(Name(p))}
       IN fsFiles' = [p \in DOMAIN fsFiles \ stale |-> fsFiles[p]]
    /\ pending' = {p \in DOMAIN fsFiles : Below(p, StgDir(sources[src]))}
    /\ pc' = "move"
    /\ UNCHANGED <<cmd, fsDirs, sources, src, gen, staged, cleanVars,
                   splitVars, dbVars>>

\* TargetDir that forgets the directory below the staging root.
TargetDirFlat(root, stg) == <<>>

\* target_dir = root.replace(db_stg_dir, "")
TargetDir(root, stg) == Remove(root, stg)

\* One file of the walk: its directory below base_dir is made if missing and
\* the file is moved there, replacing a file of that name.
FromDbMove ==
    /\ cmd = "from_db"
    /\ pc = "move"
    /\ pending # {}
    /\ \E f \in pending :
        LET target_dir == TargetDir(Dir(f), StgDir(sources[src]))
            full_target_dir == BaseDir \o target_dir
            dst == full_target_dir \o <<Name(f)>>
        IN /\ fsDirs' = MakeDirs(fsDirs, full_target_dir)
           /\ fsFiles' = [p \in (DOMAIN fsFiles \ {f}) \cup {dst} |->
                            IF p = dst THEN fsFiles[f] ELSE fsFiles[p]]
           /\ pending' = pending \ {f}
    /\ UNCHANGED <<cmd, pc, sources, src, gen, staged, cleanVars, splitVars,
                   dbVars>>

\* if os.path.isdir(db_stg_dir): shutil.rmtree(db_stg_dir)
FromDbRmtree ==
    /\ cmd = "from_db"
    /\ pc = "move"
    /\ pending = {}
    /\ fsFiles' = RmTreeFiles(fsFiles, StgDir(sources[src]))
    /\ fsDirs' = RmTreeDirs(fsDirs, StgDir(sources[src]))
    /\ pc' = "loop"
    /\ UNCHANGED <<cmd, sources, src, gen, staged, pending, cleanVars,
                   splitVars, dbVars>>

NextFromDb ==
    \/ FromDbLoop
    \/ FromDbStage
    \/ FromDbPurge
    \/ FromDbMove
    \/ FromDbRmtree

SpecFromDb == InitFromDb /\ [][NextFromDb]_vars

\* C8: after the move step every file the scripter staged lies below the
\* destination root at its path relative to the staging root, in a directory
\* that exists, with the staged content; no file is left in the staging tree,
\* and once the staging root is removed it no longer exists.
C8_StagedFilesMovedToMirroredPaths ==
    (/\ cmd = "from_db"
     /\ src > 0
     /\ pending = {}
     /\ pc \in {"move", "loop", "done"}) =>
        LET source == sources[src]
        IN /\ \A r \in staged :
                /\ BaseDir \o r \in DOMAIN fsFiles
                /\ fsFiles[BaseDir \o r] = Slug(source)
                /\ Dir(BaseDir \o r) \in fsDirs
           /\ \A p \in DOMAIN fsFiles : ~Below(p, StgDir(source))
           /\ pc \in {"loop", "done"} => StgDir(source) \notin fsDirs

C8_Witness ==
    /\ cmd = "from_db"
    /\ pc = "loop"
    /\ src > 0
    /\ <<"migrations", CreationScript(sources[src])>> \in staged
    /\ SchemaDir(sources[src]) \o <<"t1.sql">> \in staged
    /\ BaseDir \o SchemaDir(sources[src]) \o <<"t1.sql">> \in DOMAIN fsFiles

----------------------------------------------------------------------------
(* cleanup. regex_remove is left at its default, the empty pattern. *)

DirNames == {"a", "b"}

\* The directory at depth n below base_dir whose first component is top: a
\* chain top\a\...\a.
Chain(top, n) == BaseDir \o <<top>> \o [k \in 1..(n - 1) |-> "a"]

\* dict(name_swaps): no pair, one pair, or two pairs applied in order.
SwapLists == {<<>>, <<<<"a", "b">>>>, <<<<"a", "b">>, <<"b", "a">>>>}

\* A tree below base_dir: under each top-level name a chain of directories
\* of some depth (none at depth 0); any directory may hold a file. glob
\* matched none of the files or all of them.
InitCleanup ==
    /\ cmd = "cleanup"
    /\ pc = "files"
    /\ text = <<>>
    /\ batches = <<>>
    /\ overwrite \in BOOLEAN
    /\ DbIdle
    /\ FromIdle
    /\ \E depth \in [DirNames -> 0..MaxDepth] :
        fsDirs = {BaseDir} \cup UNION {{Chain(top, n) : n \in 1..depth[top]}
                                        : top \in DirNames}
    /\ \E F \in SUBSET {d \o <<"x.sql">> : d \in fsDirs} :
        fsFiles = [p \in F |-> "a"]
    /\ matched \in {{}, DOMAIN fsFiles}
    /\ name_swaps \in SwapLists
    /\ swap_filenames \in BOOLEAN
    /\ remove_empty_dirs \in BOOLEAN
    /\ listing = [dirs |-> {}, files |-> {}]
    /\ todo = {}
    /\ deleted = {}

\* str.replace(source, target) on one name.
Swap(name, pair) == IF name = pair[1] THEN pair[2] ELSE name

\* for source, target in name_swaps.items(): x = x.replace(source, target)
RECURSIVE ApplySwaps(_, _)
ApplySwaps(p, swaps) ==
    IF swaps = <<>>
    THEN p
    ELSE ApplySwaps([k \in DOMAIN p |-> Swap(p[k], Head(swaps))], Tail(swaps))

\* One file of the glob: read (a failure prints and returns from cleanup),
\* rewrite with the names swapped, and rename if its path changed; a rename
\* onto an existing file raises.
CleanupFile ==
    /\ cmd = "cleanup"
    /\ pc = "files"
    /\ matched # {}
    /\ \E f \in matched :
        /\ matched' = matched \ {f}
        /\ \/ /\ pc' = "done"
              /\ UNCHANGED fsVars
           \/ /\ f \in DOMAIN fsFiles
              /\ LET newtext == ApplySwaps(<<fsFiles[f]>>, name_swaps)[1]
                     newfile == IF swap_filenames THEN ApplySwaps(f, name_swaps)
                                                  ELSE f
                     written == [fsFiles EXCEPT ![f] = newtext]
                     cleared == IF overwrite
                                THEN [p \in DOMAIN written \ {newfile} |->
                                        written[p]]
                                ELSE written
                 IN IF newfile = f
                    THEN /\ fsFiles' = written
                         /\ UNCHANGED <<fsDirs, pc>>
                    ELSE /\ fsDirs' = MakeDirs(fsDirs, Dir(newfile))
                         /\ IF newfile \in DOMAIN cleared
                            THEN /\ fsFiles' = cleared
                                 /\ pc' = "rename_failed"
                            ELSE /\ fsFiles' =
                                     [p \in (DOMAIN cleared \ {f})
                                            \cup {newfile} |->
                                        IF p = newfile THEN newtext
                                                       ELSE cleared[p]]
                                 /\ UNCHANGED pc
    /\ UNCHANGED <<cmd, overwrite, name_swaps, swap_filenames,
                   remove_empty_dirs, listing, todo, deleted, splitVars,
                   dbVars, fromVars>>

\* if remove_empty_dirs: deleted = set(); os.walk(base_dir, topdown=False)
\* scans the tree below base_dir.
CleanupWalk ==
    /\ cmd = "cleanup"
    /\ pc = "files"
    /\ matched = {}
    /\ IF remove_empty_dirs
       THEN /\ listing' = [dirs |-> {d \in fsDirs : IsPrefix(BaseDir, d)},
                           files |-> DOMAIN fsFiles]
            /\ todo' = {d \in fsDirs : IsPrefix(BaseDir, d)}
            /\ deleted' = {}
            /\ pc' = "prune"
       ELSE /\ pc' = "done"
            /\ UNCHANGED <<listing, todo, deleted>>
    /\ UNCHANGED <<cmd, overwrite, matched, name_swaps, swap_filenames,
                   remove_empty_dirs, splitVars, dbVars, fsVars, fromVars>>

\* The subdirs and files os.walk yields with current_dir.
Subdirs(current_dir) ==
    {d \in listing.dirs : Len(d) > 0 /\ Dir(d) = current_dir}

Files(current_dir) == {f \in listing.files : Dir(f) = current_dir}

\* StillHasSubdirs by the listing alone, without the deleted set.
StillHasSubdirsListed(current_dir) == Subdirs(current_dir) # {}

\* still_has_subdirs: some listed subdirectory is not in deleted.
StillHasSubdirs(current_dir) ==
    \E subdir \in Subdirs(current_dir) : subdir \notin deleted

\* One directory of the bottom-up walk, yielded after all directories below
\* it: it is removed if it lists no file and no subdirectory is left.
CleanupPrune ==
    /\ cmd = "cleanup"
    /\ pc = "prune"
    /\ todo # {}
    /\ \E current_dir \in todo :
        /\ \A d \in todo : ~Below(d, current_dir)
        /\ todo' = todo \ {current_dir}
        /\ IF Files(current_dir) = {} /\ ~StillHasSubdirs(current_dir)
           THEN /\ fsDirs' = fsDirs \ {current_dir}
                /\ deleted' = deleted \cup {current_dir}
           ELSE UNCHANGED <<fsDirs, deleted>>
    /\ UNCHANGED <<cmd, pc, overwrite, fsFiles, matched, name_swaps,
                   swap_filenames, remove_empty_dirs, listing, splitVars,
                   dbVars, fromVars>>

\* The walk is exhausted and cleanup returns.
CleanupDone ==
    /\ cmd = "cleanup"
    /\ pc = "prune"
    /\ todo = {}
    /\ pc' = "done"
    /\ UNCHANGED <<cmd, overwrite, splitVars, dbVars, fsVars, fromVars,
                   cleanVars>>

NextCleanup ==
    \/ CleanupFile
    \/ CleanupWalk
    \/ CleanupPrune
    \/ CleanupDone

SpecCleanup == InitCleanup /\ [][NextCleanup]_vars

\* Directories the bottom-up walk has yielded.
Visited == listing.dirs \ todo

\* C9: a directory the walk has passed is removed exactly when it contains no
\* file, directly or in any descendant, which is exactly when it lists no
\* file and every one of its subdirectories was removed in the same pass; a
\* directory with a file below it is never removed.
C9_PrunedExactlyTheFilelessDirectories ==
    \A d \in Visited :
        /\ d \in deleted <=> ~\E f \in DOMAIN fsFiles : Below(f, d)
        /\ d \in deleted <=>
            (Files(d) = {} /\ \A sub \in Subdirs(d) : sub \in deleted)
        /\ d \in deleted <=> d \notin fsDirs

C9_Witness ==
    /\ cmd = "cleanup"
    /\ pc = "done"
    /\ \E d1 \in listing.dirs, d2 \in listing.dirs, d3 \in listing.dirs :
        /\ d2 \in Subdirs(d1)
        /\ d3 \in Subdirs(d2)
        /\ d1 \o <<"x.sql">> \in DOMAIN fsFiles
        /\ d1 \in fsDirs
        /\ d2 \in deleted
        /\ d3 \in deleted

====
